---- MODULE Spec2Model ----
(***************************************************************************)
(* A model of the GBM gralloc module (gralloc.cpp): the module-wide        *)
(* device handle dmod->gbm, the module mutex dmod->mutex, and the entry    *)
(* points open / perform / registerBuffer / unregisterBuffer / lock /      *)
(* unlock / alloc / free / close, each split at its pthread_mutex_lock and *)
(* pthread_mutex_unlock calls so that threads interleave as they can in    *)
(* the program.  The handle registry and the buffer objects live in        *)
(* gralloc_gbm.cpp, which is not part of the sources at hand; the          *)
(* operators named gralloc_gbm_* and gbm_free follow the written           *)
(* specification of the registry (sections 4.2 and 4.3).                   *)
(***************************************************************************)
EXTENDS Integers, Sequences, FiniteSets, TLC

\* ------------------------------------------------------------- bounds
NThreads == 2
NHandles == 2
MaxCalls == 4

Threads == 1..NThreads
Handles == 1..NHandles
\* a null buffer_handle_t
NULL == 0

\* ---------------------------------------------------------- constants
EINVAL == 22
ENOMEM == 12
\* the descriptor gbm_device_get_fd reports for the device
DevFd == 7

\* errno values gralloc_gbm_bo_create may leave behind when it fails
Errnos == {EINVAL, ENOMEM}

\* pixel formats: the nine of gralloc_gbm_get_bpp and one it does not list
Formats ==
    {"RGBA_8888", "RGBX_8888", "BGRA_8888", "RGB_888", "RGB_565",
     "YCbCr_422_I", "YV12", "YCbCr_422_SP", "YCrCb_420_SP", "RAW16"}

\* byte strides the backend may report for a buffer (gbm_bo_get_stride)
ByteStrides == {128, 256}

\* device names passed to open, and op codes passed to perform
GRALLOC_HARDWARE_GPU0 == "gpu0"
DeviceNames == {GRALLOC_HARDWARE_GPU0, "fb0"}
GRALLOC_MODULE_PERFORM_GET_DRM_FD == "GET_DRM_FD"
GRALLOC_MODULE_PERFORM_GET_USAGE == "GET_USAGE"
PerformOps ==
    {GRALLOC_MODULE_PERFORM_GET_DRM_FD, GRALLOC_MODULE_PERFORM_GET_USAGE,
     "OTHER_OP"}

\* the entry points of the module and of the allocation endpoint
HandleOps == {"register", "unregister", "lock", "unlock", "free"}
Ops == HandleOps \cup {"alloc", "open", "perform", "close"}

\* -------------------------------------------------------------- state
VARIABLES
    gbm,        \* dmod->gbm: "null", or "live" for a pointer to the device
                \*   gbm_dev_create returned
    ndev,       \* number of backend devices gbm_dev_create has created
    ndestroy,   \* number of times gbm_dev_destroy has been called on the
                \*   device dmod->gbm points to
    mutex,      \* dmod->mutex: the set of threads that hold it
    endpoints,  \* number of alloc_device_t objects open has handed out
    handle,     \* native handle of each buffer: "none", "valid", "closed"
    registry,   \* handle registry: registered handle -> reference count
    bos,        \* buffer objects that exist (created, not destroyed)
    locked,     \* buffer objects that hold a CPU mapping (are locked)
    calls,      \* number of entry-point calls made so far
    pc,         \* per thread: position inside the current call
    op,         \* per thread: the entry point being run
    hnd,        \* per thread: the buffer_handle_t argument / *handle
    sarg,       \* per thread: format, device name or perform op code
    err,        \* per thread: the local variable err
    bstride,    \* per thread: the byte stride gbm_bo_get_stride returned
                \*   to the current alloc; NULL when none was read
    out,        \* per thread: *stride (alloc) or *fd (perform); -1 unwritten
    called,     \* per thread: last function of the backend or of the
                \*   registry the current call has invoked
    script,     \* per thread: the calls a scripted client has yet to
                \*   finish, the current one first; << >> for a free one
    own,        \* per thread: the handle a scripted client works on
    hist        \* per thread: what the finished calls of a scripted
                \*   client returned

\* everything the threads share, the mutex apart
shared == <<gbm, ndev, ndestroy, endpoints, handle, registry, bos, locked>>
\* the clients' bookkeeping
client == <<script, own, hist>>
vars == <<gbm, ndev, ndestroy, mutex, endpoints, handle, registry, bos, locked,
          calls, pc, op, hnd, sarg, err, out, bstride, called, script, own,
          hist>>

\* an output parameter (*stride, *fd) the call has not written
Unwritten == -1

\* a value read from the memory of a destroyed device
StaleFd == DevFd + 1

\* ------------------------------------------------- gralloc.cpp helpers

\* gralloc_gbm_get_bpp with the case of RGB_888 missing from the switch
gralloc_gbm_get_bpp_no888(format) ==
    CASE format \in {"RGBA_8888", "RGBX_8888", "BGRA_8888"} -> 4
      [] format \in {"RGB_565", "YCbCr_422_I"} -> 2
      [] format \in {"YV12", "YCbCr_422_SP", "YCrCb_420_SP"} -> 1
      [] OTHER -> 0

\* gralloc_gbm_get_bpp: bytes per pixel of a format, 0 for an unlisted one
gralloc_gbm_get_bpp(format) ==
    CASE format \in {"RGBA_8888", "RGBX_8888", "BGRA_8888"} -> 4
      [] format = "RGB_888" -> 3
      [] format \in {"RGB_565", "YCbCr_422_I"} -> 2
      [] format \in {"YV12", "YCbCr_422_SP", "YCrCb_420_SP"} -> 1
      [] OTHER -> 0

\* the values an int division by zero may leave in *stride when it does
\* not trap (the behaviour is undefined)
DivZeroValues == {0, Unwritten}

\* ---------------------------------- registry and buffer objects
\* (gralloc_gbm.cpp; written from sections 4.2 - 4.4 of the specification)

\* formats the backend can allocate; create fails for every other one
SupportedFormats == Formats \ {"RAW16"}

\* registry lookup: the buffer object of a handle, NULL when it has none
gralloc_gbm_bo_from_handle(h) ==
    IF h \in DOMAIN registry THEN h ELSE NULL

\* gralloc_gbm_bo_create: a new buffer object with reference count 1 under
\* a handle not used before; NULL for an unsupported format or when the
\* backend refuses (backendOk = FALSE).  new is the handle it would take.
gralloc_gbm_bo_create(dev, format, backendOk, new) ==
    IF dev = "live" /\ format \in SupportedFormats /\ backendOk
       /\ new \in Handles
    THEN [bo |-> new,
          registry |-> [h \in DOMAIN registry \cup {new} |->
                          IF h = new THEN 1 ELSE registry[h]],
          bos |-> bos \cup {new}, locked |-> locked]
    ELSE [bo |-> NULL, registry |-> registry, bos |-> bos, locked |-> locked]

\* register: a present entry gains a reference; an absent one is imported
\* through the backend (which may refuse: importOk) with count 1
gralloc_gbm_handle_register(h, dev, importOk) ==
    IF h \in DOMAIN registry
    THEN [ret |-> 0,
          registry |-> [registry EXCEPT ![h] = @ + 1],
          bos |-> bos, locked |-> locked]
    ELSE IF h \in Handles /\ handle[h] = "valid" /\ dev = "live" /\ importOk
    THEN [ret |-> 0,
          registry |-> [x \in DOMAIN registry \cup {h} |->
                          IF x = h THEN 1 ELSE registry[x]],
          bos |-> bos \cup {h}, locked |-> locked]
    ELSE [ret |-> -EINVAL, registry |-> registry, bos |-> bos,
          locked |-> locked]

\* unregister that drops a reference and leaves the entry where it is
gralloc_gbm_handle_unregister_keep(h) ==
    IF h \notin DOMAIN registry
    THEN [ret |-> -EINVAL, registry |-> registry, bos |-> bos,
          locked |-> locked]
    ELSE [ret |-> 0, registry |-> [registry EXCEPT ![h] = @ - 1],
          bos |-> IF registry[h] > 1 THEN bos ELSE bos \ {h},
          locked |-> IF registry[h] > 1 THEN locked ELSE locked \ {h}]

\* unregister: drops a reference; the last one destroys the buffer object
\* and removes the entry; an unknown handle is an error and changes nothing
gralloc_gbm_handle_unregister(h) ==
    IF h \notin DOMAIN registry
    THEN [ret |-> -EINVAL, registry |-> registry, bos |-> bos,
          locked |-> locked]
    ELSE IF registry[h] > 1
    THEN [ret |-> 0, registry |-> [registry EXCEPT ![h] = @ - 1],
          bos |-> bos, locked |-> locked]
    ELSE [ret |-> 0,
          registry |-> [x \in DOMAIN registry \ {h} |-> registry[x]],
          bos |-> bos \ {h}, locked |-> locked \ {h}]

\* lock of a buffer object: maps it, or reuses the mapping it has
gralloc_gbm_bo_lock(bo) ==
    [ret |-> 0, registry |-> registry, bos |-> bos,
     locked |-> locked \cup {bo}]

\* unlock of a buffer object: releases the mapping; on one that is not
\* locked it is an error (NotLockedError) and changes nothing
gralloc_gbm_bo_unlock(bo) ==
    IF bo \in locked
    THEN [ret |-> 0, registry |-> registry, bos |-> bos,
          locked |-> locked \ {bo}]
    ELSE [ret |-> -EINVAL, registry |-> registry, bos |-> bos,
          locked |-> locked]

\* gbm_free: destroys the buffer object whatever its reference count and
\* takes its entry out of the registry
gbm_free(bo) ==
    [ret |-> 0,
     registry |-> [x \in DOMAIN registry \ {bo} |-> registry[x]],
     bos |-> bos \ {bo}, locked |-> locked \ {bo}]

\* ------------------------------------------------------ building blocks

\* the registry and buffer-object state a registry call leaves behind
SetReg(r) ==
    /\ registry' = r.registry
    /\ bos' = r.bos
    /\ locked' = r.locked

\* a lock that does not wait: pthread_mutex_trylock with its result
\* ignored
pthread_mutex_lock_nowait(t) ==
    mutex' = IF mutex = {} THEN {t} ELSE mutex

\* pthread_mutex_lock(&dmod->mutex): blocks while another thread holds it
pthread_mutex_lock(t) ==
    /\ mutex = {}
    /\ mutex' = {t}

\* pthread_mutex_unlock(&dmod->mutex)
pthread_mutex_unlock(t) ==
    mutex' = mutex \ {t}

Goto(t, where) ==
    pc' = [pc EXCEPT ![t] = where]

\* the call returns to its caller and its frame is gone; a scripted client
\* notes what it returned, keeps the handle that alloc gave it for its
\* later calls and turns to its next call
Return(t) ==
    /\ pc' = [pc EXCEPT ![t] = "idle"]
    /\ op' = [op EXCEPT ![t] = "none"]
    /\ hnd' = [hnd EXCEPT ![t] = NULL]
    /\ sarg' = [sarg EXCEPT ![t] = ""]
    /\ err' = [err EXCEPT ![t] = 0]
    /\ out' = [out EXCEPT ![t] = Unwritten]
    /\ bstride' = [bstride EXCEPT ![t] = NULL]
    /\ called' = [called EXCEPT ![t] = "none"]
    /\ IF script[t] = << >>
       THEN UNCHANGED client
       ELSE /\ script' = [script EXCEPT ![t] = Tail(@)]
            /\ hist' = [hist EXCEPT ![t] = Append(@, err[t])]
            /\ own' = [own EXCEPT ![t] = IF op[t] = "alloc" THEN hnd[t] ELSE @]

\* the caller holds the result (err and the output parameters) of a call
\* that took no mutex on its way out, and goes on
Returned(t) ==
    /\ pc[t] = "ret"
    /\ Return(t)
    /\ UNCHANGED <<shared, mutex, calls>>

\* the pthread_mutex_lock that opens the critical section of
\* registerBuffer, after gbm_init: the thread waits at "enter" until it
\* has the mutex
Enter(t) ==
    /\ pc[t] = "enter"
    /\ pthread_mutex_lock(t)
    /\ Goto(t, "body")
    /\ UNCHANGED <<shared, calls, client, op, hnd, sarg, err, out, bstride,
                   called>>

\* the label unlock: without its pthread_mutex_unlock: the call returns
\* err and the thread still holds the mutex
Exit_locked(t) ==
    /\ pc[t] = "exit"
    /\ Return(t)
    /\ UNCHANGED <<shared, mutex, calls>>

\* the label unlock: of an entry point: the mutex is released and the
\* call returns err
Exit(t) ==
    /\ pc[t] = "exit"
    /\ pthread_mutex_unlock(t)
    /\ Return(t)
    /\ UNCHANGED <<shared, calls>>

\* the handle a successful create returns: the first one not used so far
FreshHandle ==
    IF \E h \in Handles : handle[h] = "none"
    THEN CHOOSE h \in Handles :
            /\ handle[h] = "none"
            /\ \A x \in Handles : handle[x] = "none" => h <= x
    ELSE NULL

\* ------------------------------------------------------------ gbm_init

\* the test left out: gbm_init creates a device on every call
DeviceAbsent_always(dev) ==
    TRUE

\* if (!dmod->gbm)
DeviceAbsent(dev) ==
    dev = "null"

\* gbm_init that leaves err at 0 when gbm_dev_create has failed
InitErr_zero(ok) ==
    0

\* if (!dmod->gbm) err = -EINVAL;  after the call of gbm_dev_create
InitErr(ok) ==
    IF ok THEN 0 ELSE -EINVAL

\* callers that go on whatever gbm_init has returned
AfterInit_noreturn(t) ==
    IF op[t] = "register" THEN "enter" ELSE "tail"

\* err = gbm_init(dmod); if (err) return err;  in open, registerBuffer and
\* perform: where the caller goes on once gbm_init has returned
AfterInit(t) ==
    IF err[t] # 0 THEN "ret"
    ELSE IF op[t] = "register" THEN "enter" ELSE "tail"

\* whether the device dmod->gbm points to exists: created and not destroyed
DeviceLive ==
    gbm = "live" /\ ndestroy = 0

\* static int gbm_init(struct gbm_module_t *dmod), run on behalf of open,
\* registerBuffer and perform: the lock with the test of dmod->gbm, the
\* call of gbm_dev_create with the assignment of its result, and the
\* unlock, which takes the caller's "if (err) return err;" with it
gbm_init(t) ==
    /\ op[t] \in {"open", "register", "perform"}
    /\ \/ /\ pc[t] = "init_lock"
          /\ pthread_mutex_lock(t)
          /\ Goto(t, IF DeviceAbsent(gbm) THEN "init_create"
                     ELSE "init_unlock")
          /\ err' = [err EXCEPT ![t] = 0]
          /\ UNCHANGED <<gbm, ndev, called>>
       \/ /\ pc[t] = "init_create"
          /\ \E ok \in BOOLEAN :
                /\ gbm' = IF ok THEN "live" ELSE "null"
                /\ ndev' = IF ok THEN ndev + 1 ELSE ndev
                /\ err' = [err EXCEPT ![t] = InitErr(ok)]
          /\ called' = [called EXCEPT ![t] = "gbm_dev_create"]
          /\ Goto(t, "init_unlock")
          /\ UNCHANGED mutex
       \/ /\ pc[t] = "init_unlock"
          /\ pthread_mutex_unlock(t)
          /\ Goto(t, AfterInit(t))
          /\ UNCHANGED <<gbm, ndev, err, called>>
    /\ UNCHANGED <<ndestroy, endpoints, handle, registry, bos, locked, calls,
                   client, op, hnd, sarg, out, bstride>>

\* ------------------------------------------------- module entry points

\* what gbm_device_get_fd(dmod->gbm) returns: the descriptor of the
\* device, or, read from a device that was destroyed, anything
FdValues ==
    IF DeviceLive THEN {DevFd} ELSE {DevFd, StaleFd}

\* gbm_mod_perform without the case GRALLOC_MODULE_PERFORM_GET_USAGE: the
\* op code falls to the default label
gbm_mod_perform_nousage(t) ==
    /\ op[t] = "perform"
    /\ pc[t] = "tail"
    /\ \E uop \in PerformOps :
          /\ sarg' = [sarg EXCEPT ![t] = uop]
          /\ IF uop = GRALLOC_MODULE_PERFORM_GET_DRM_FD
             THEN /\ \E fd \in FdValues : out' = [out EXCEPT ![t] = fd]
                  /\ called' = [called EXCEPT ![t] = "gbm_device_get_fd"]
                  /\ err' = [err EXCEPT ![t] = 0]
             ELSE /\ err' = [err EXCEPT ![t] = -EINVAL]
                  /\ UNCHANGED <<out, called>>
    /\ Goto(t, "ret")
    /\ UNCHANGED <<shared, mutex, calls, client, op, hnd, bstride>>

\* gbm_mod_perform after gbm_init has returned 0: the switch on the op
\* code uop, which sarg records
gbm_mod_perform(t) ==
    /\ op[t] = "perform"
    /\ pc[t] = "tail"
    /\ \E uop \in PerformOps :
          /\ sarg' = [sarg EXCEPT ![t] = uop]
          /\ IF uop = GRALLOC_MODULE_PERFORM_GET_DRM_FD
             THEN /\ \E fd \in FdValues : out' = [out EXCEPT ![t] = fd]
                  /\ called' = [called EXCEPT ![t] = "gbm_device_get_fd"]
                  /\ err' = [err EXCEPT ![t] = 0]
             ELSE /\ err' = [err EXCEPT ![t] =
                               IF uop = GRALLOC_MODULE_PERFORM_GET_USAGE
                               THEN 0 ELSE -EINVAL]
                  /\ UNCHANGED <<out, called>>
    /\ Goto(t, "ret")
    /\ UNCHANGED <<shared, mutex, calls, client, op, hnd, bstride>>

\* gbm_mod_register_buffer once gbm_init has returned 0
gbm_mod_register_buffer_body(t) ==
    /\ pc[t] = "body"
    /\ \E importOk \in BOOLEAN :
          LET r == gralloc_gbm_handle_register(hnd[t], gbm, importOk)
          IN  /\ err' = [err EXCEPT ![t] = r.ret]
              /\ SetReg(r)
    /\ called' = [called EXCEPT ![t] = "gralloc_gbm_handle_register"]
    /\ Goto(t, "exit")
    /\ UNCHANGED <<gbm, ndev, ndestroy, endpoints, handle, mutex, calls,
                   client, op, hnd, sarg, out, bstride>>

gbm_mod_register_buffer(t) ==
    /\ op[t] = "register"
    /\ \/ Enter(t)
       \/ gbm_mod_register_buffer_body(t)
       \/ Exit(t)

\* gbm_mod_unregister_buffer that does not keep what the registry returns
\* (the call made as a statement, err left at 0)
gbm_mod_unregister_buffer_body_noerr(t) ==
    /\ pc[t] = "body"
    /\ SetReg(gralloc_gbm_handle_unregister(hnd[t]))
    /\ called' = [called EXCEPT ![t] = "gralloc_gbm_handle_unregister"]
    /\ Goto(t, "exit")
    /\ UNCHANGED <<gbm, ndev, ndestroy, endpoints, handle, mutex, calls,
                   client, op, hnd, sarg, out, bstride, err>>

\* gbm_mod_unregister_buffer
gbm_mod_unregister_buffer_body(t) ==
    /\ pc[t] = "body"
    /\ LET r == gralloc_gbm_handle_unregister(hnd[t])
       IN  /\ err' = [err EXCEPT ![t] = r.ret]
           /\ SetReg(r)
    /\ called' = [called EXCEPT ![t] = "gralloc_gbm_handle_unregister"]
    /\ Goto(t, "exit")
    /\ UNCHANGED <<gbm, ndev, ndestroy, endpoints, handle, mutex, calls,
                   client, op, hnd, sarg, out, bstride>>

gbm_mod_unregister_buffer(t) ==
    /\ op[t] = "unregister"
    /\ \/ gbm_mod_unregister_buffer_body(t)
       \/ Exit(t)

\* gbm_mod_lock without the test of bo: gralloc_gbm_bo_lock is called with
\* whatever the lookup gave
gbm_mod_lock_body_nocheck(t) ==
    /\ pc[t] = "body"
    /\ LET r == gralloc_gbm_bo_lock(gralloc_gbm_bo_from_handle(hnd[t]))
       IN  /\ err' = [err EXCEPT ![t] = r.ret]
           /\ SetReg(r)
    /\ called' = [called EXCEPT ![t] = "gralloc_gbm_bo_lock"]
    /\ Goto(t, "exit")
    /\ UNCHANGED <<gbm, ndev, ndestroy, endpoints, handle, mutex, calls,
                   client, op, hnd, sarg, out, bstride>>

\* gbm_mod_lock
gbm_mod_lock_body(t) ==
    /\ pc[t] = "body"
    /\ LET bo == gralloc_gbm_bo_from_handle(hnd[t])
       IN  IF bo = NULL
           THEN /\ err' = [err EXCEPT ![t] = -EINVAL]
                /\ Goto(t, "exit")
                /\ UNCHANGED <<registry, bos, locked, called>>
           ELSE LET r == gralloc_gbm_bo_lock(bo)
                IN  /\ err' = [err EXCEPT ![t] = r.ret]
                    /\ SetReg(r)
                    /\ called' = [called EXCEPT ![t] = "gralloc_gbm_bo_lock"]
                    /\ Goto(t, "exit")
    /\ UNCHANGED <<gbm, ndev, ndestroy, endpoints, handle, mutex, calls,
                   client, op, hnd, sarg, out, bstride>>

gbm_mod_lock(t) ==
    /\ op[t] = "lock"
    /\ \/ gbm_mod_lock_body(t)
       \/ Exit(t)

\* gbm_mod_unlock: gralloc_gbm_bo_unlock is called as a statement, so
\* whatever it reports is dropped and err stays 0
gbm_mod_unlock_body(t) ==
    /\ pc[t] = "body"
    /\ LET bo == gralloc_gbm_bo_from_handle(hnd[t])
       IN  IF bo = NULL
           THEN /\ err' = [err EXCEPT ![t] = -EINVAL]
                /\ Goto(t, "exit")
                /\ UNCHANGED <<registry, bos, locked, called>>
           ELSE LET r == gralloc_gbm_bo_unlock(bo)
                IN  /\ SetReg(r)
                    /\ called' = [called EXCEPT
                                    ![t] = "gralloc_gbm_bo_unlock"]
                    /\ Goto(t, "exit")
                    /\ UNCHANGED err
    /\ UNCHANGED <<gbm, ndev, ndestroy, endpoints, handle, mutex, calls,
                   client, op, hnd, sarg, out, bstride>>

gbm_mod_unlock(t) ==
    /\ op[t] = "unlock"
    /\ \/ gbm_mod_unlock_body(t)
       \/ Exit(t)

\* ------------------------------------------- allocation endpoint (gpu0)

\* gbm_mod_free_gpu0 that drops one reference (gralloc_gbm_handle_unregister)
\* where the source calls gbm_free
gbm_mod_free_gpu0_body_unref(t) ==
    /\ pc[t] = "body"
    /\ LET bo == gralloc_gbm_bo_from_handle(hnd[t])
       IN  IF bo = NULL
           THEN /\ err' = [err EXCEPT ![t] = -EINVAL]
                /\ UNCHANGED <<handle, registry, bos, locked, called>>
           ELSE LET r == gralloc_gbm_handle_unregister(bo)
                IN  /\ SetReg(r)
                    /\ handle' = [handle EXCEPT ![hnd[t]] = "closed"]
                    /\ called' = [called EXCEPT ![t] = "gbm_free"]
                    /\ UNCHANGED err
    /\ Goto(t, "exit")
    /\ UNCHANGED <<gbm, ndev, ndestroy, endpoints, mutex, calls, client, op,
                   hnd, sarg, out, bstride>>

\* gbm_mod_free_gpu0 whose error path is "return -EINVAL;" in place of
\* "goto unlock;"
gbm_mod_free_gpu0_body_return(t) ==
    /\ pc[t] = "body"
    /\ LET bo == gralloc_gbm_bo_from_handle(hnd[t])
       IN  IF bo = NULL
           THEN /\ err' = [err EXCEPT ![t] = -EINVAL]
                /\ Goto(t, "ret")
                /\ UNCHANGED <<handle, registry, bos, locked, called>>
           ELSE LET r == gbm_free(bo)
                IN  /\ SetReg(r)
                    /\ handle' = [handle EXCEPT ![hnd[t]] = "closed"]
                    /\ called' = [called EXCEPT ![t] = "gbm_free"]
                    /\ Goto(t, "exit")
                    /\ UNCHANGED err
    /\ UNCHANGED <<gbm, ndev, ndestroy, endpoints, mutex, calls, client, op,
                   hnd, sarg, out, bstride>>

\* gbm_mod_free_gpu0: gbm_free, then native_handle_close and delete
gbm_mod_free_gpu0_body(t) ==
    /\ pc[t] = "body"
    /\ LET bo == gralloc_gbm_bo_from_handle(hnd[t])
       IN  IF bo = NULL
           THEN /\ err' = [err EXCEPT ![t] = -EINVAL]
                /\ Goto(t, "exit")
                /\ UNCHANGED <<handle, registry, bos, locked, called>>
           ELSE LET r == gbm_free(bo)
                IN  /\ SetReg(r)
                    /\ handle' = [handle EXCEPT ![hnd[t]] = "closed"]
                    /\ called' = [called EXCEPT ![t] = "gbm_free"]
                    /\ Goto(t, "exit")
                    /\ UNCHANGED err
    /\ UNCHANGED <<gbm, ndev, ndestroy, endpoints, mutex, calls, client, op,
                   hnd, sarg, out, bstride>>

gbm_mod_free_gpu0(t) ==
    /\ op[t] = "free"
    /\ \/ gbm_mod_free_gpu0_body(t)
       \/ Exit(t)

\* *stride left in bytes: the division by the bytes per pixel left out
StrideValues_bytes(byteStride, bpp) ==
    {byteStride}

\* *stride = gbm_bo_get_stride(...) / gralloc_gbm_get_bpp(format): the
\* values the division can leave in *stride
StrideValues(byteStride, bpp) ==
    IF bpp = 0 THEN DivZeroValues ELSE {byteStride \div bpp}

\* alloc that leaves err at 0 when gralloc_gbm_bo_create has failed
AllocErr_zero(errno) ==
    0

\* if (!bo) err = -errno;
AllocErr(errno) ==
    -errno

\* gbm_mod_alloc_gpu0; sarg records the format argument.  A division by
\* zero either traps (the thread stops at "sigfpe", the mutex still held)
\* or leaves some value in *stride.
gbm_mod_alloc_gpu0_body(t) ==
    /\ pc[t] = "body"
    /\ \E format \in Formats, backendOk \in BOOLEAN, errno \in Errnos,
          byteStride \in ByteStrides :
          LET r == gralloc_gbm_bo_create(gbm, format, backendOk, FreshHandle)
              bpp == gralloc_gbm_get_bpp(format)
          IN  /\ sarg' = [sarg EXCEPT ![t] = format]
              /\ IF r.bo = NULL
                 THEN /\ err' = [err EXCEPT ![t] = AllocErr(errno)]
                      /\ Goto(t, "exit")
                      /\ UNCHANGED <<handle, registry, bos, locked, hnd, out,
                                     bstride>>
                 ELSE /\ SetReg(r)
                      /\ handle' = [handle EXCEPT ![r.bo] = "valid"]
                      /\ hnd' = [hnd EXCEPT ![t] = r.bo]
                      /\ bstride' = [bstride EXCEPT ![t] = byteStride]
                      /\ \/ /\ bpp = 0
                            /\ Goto(t, "sigfpe")
                            /\ UNCHANGED out
                         \/ /\ \E v \in StrideValues(byteStride, bpp) :
                                  out' = [out EXCEPT ![t] = v]
                            /\ Goto(t, "exit")
                      /\ UNCHANGED err
    /\ called' = [called EXCEPT ![t] = "gralloc_gbm_bo_create"]
    /\ UNCHANGED <<gbm, ndev, ndestroy, endpoints, mutex, calls, client, op>>

gbm_mod_alloc_gpu0(t) ==
    /\ op[t] = "alloc"
    /\ \/ gbm_mod_alloc_gpu0_body(t)
       \/ Exit(t)

\* gbm_mod_open that takes every name for that of the allocation device
KnownDevice_any(name) ==
    TRUE

\* strcmp(name, GRALLOC_HARDWARE_GPU0) == 0
KnownDevice(name) ==
    name = GRALLOC_HARDWARE_GPU0

\* gbm_mod_open, and gbm_mod_open_gpu0 around its call of gbm_init;
\* sarg records the device name
gbm_mod_open(t) ==
    /\ op[t] = "open"
    /\ \/ /\ pc[t] = "open"
          /\ \E name \in DeviceNames :
                /\ sarg' = [sarg EXCEPT ![t] = name]
                /\ IF KnownDevice(name)
                   THEN /\ Goto(t, "init_lock")
                        /\ UNCHANGED err
                   ELSE /\ err' = [err EXCEPT ![t] = -EINVAL]
                        /\ Goto(t, "ret")
          /\ UNCHANGED endpoints
       \/ /\ pc[t] = "tail"
          /\ endpoints' = endpoints + 1
          /\ err' = [err EXCEPT ![t] = 0]
          /\ Goto(t, "ret")
          /\ UNCHANGED sarg
    /\ UNCHANGED <<gbm, ndev, ndestroy, mutex, handle, registry, bos,
                   locked, calls, client, op, hnd, out, bstride, called>>

\* gbm_mod_close_gpu0 that sets dmod->gbm to NULL after gbm_dev_destroy
gbm_mod_close_gpu0_reset(t) ==
    /\ op[t] = "close"
    /\ pc[t] = "close"
    /\ gbm' = "null"
    /\ ndestroy' = 0
    /\ endpoints' = endpoints - 1
    /\ called' = [called EXCEPT ![t] = "gbm_dev_destroy"]
    /\ err' = [err EXCEPT ![t] = 0]
    /\ Goto(t, "ret")
    /\ UNCHANGED <<ndev, mutex, handle, registry, bos, locked, calls,
                   client, op, hnd, sarg, out, bstride>>

\* gbm_mod_close_gpu0: gbm_dev_destroy(dmod->gbm) and delete alloc, with
\* the mutex not taken and dmod->gbm left as it is
gbm_mod_close_gpu0(t) ==
    /\ op[t] = "close"
    /\ pc[t] = "close"
    /\ ndestroy' = ndestroy + 1
    /\ endpoints' = endpoints - 1
    /\ called' = [called EXCEPT ![t] = "gbm_dev_destroy"]
    /\ err' = [err EXCEPT ![t] = 0]
    /\ Goto(t, "ret")
    /\ UNCHANGED <<gbm, ndev, mutex, handle, registry, bos, locked, calls,
                   client, op, hnd, sarg, out, bstride>>

\* ------------------------------------------------------------- clients

\* entry points whose first statement is pthread_mutex_lock(&dmod->mutex)
LockFirst == {"unregister", "lock", "unlock", "free", "alloc"}

\* first position of an entry point
Entry(o) ==
    CASE o \in {"register", "perform"} -> "init_lock"
      [] o = "open" -> "open"
      [] o = "close" -> "close"
      [] OTHER -> "enter"

\* the arguments a caller can pass to entry point o
HandleArgs(o) ==
    IF o \in HandleOps THEN {h \in Handles : handle[h] # "none"} ELSE {NULL}

\* the call of entry point o with handle h.  An entry point that starts
\* with pthread_mutex_lock is entered when the mutex is free, the call and
\* the lock being one step: a caller waiting for the mutex has done nothing
\* yet.  The format, device name or op code of a call is drawn where the
\* entry point first reads it.
Begin(t, o, h) ==
    /\ IF o \in LockFirst
       THEN /\ pthread_mutex_lock(t)
            /\ Goto(t, "body")
       ELSE /\ Goto(t, Entry(o))
            /\ UNCHANGED mutex
    /\ op' = [op EXCEPT ![t] = o]
    /\ hnd' = [hnd EXCEPT ![t] = h]
    /\ UNCHANGED <<sarg, err, out, bstride, called>>

\* endpoints that open has returned and no thread is closing
OpenEndpoints ==
    endpoints - Cardinality({u \in Threads : op[u] = "close"})

\* whether a caller may use entry point o now: alloc, free and close are
\* methods of an endpoint that is open, and the last open endpoint is not
\* closed under a thread that is inside its alloc or free
Callable(o) ==
    /\ o \in {"alloc", "free", "close"} => OpenEndpoints > 0
    /\ o = "close" =>
          \/ OpenEndpoints > 1
          \/ \A u \in Threads : op[u] \notin {"alloc", "free"}

\* a thread calls any entry point with any arguments; alloc and free are
\* reached through an endpoint that open has returned
Call(t) ==
    /\ pc[t] = "idle"
    /\ calls < MaxCalls
    /\ calls' = calls + 1
    /\ \E o \in Ops :
          /\ Callable(o)
          /\ \E h \in HandleArgs(o) : Begin(t, o, h)
    /\ UNCHANGED <<shared, client>>


\* ------------------------------------------------------- specification

\* handles that arrive from another process, where the buffer was
\* allocated: every second one
Foreign == {h \in Handles : h % 2 = 1}

\* HAL_MODULE_INFO_SYM: mutex initialised, gbm NULL; no buffer object
\* exists; the foreign handles are there to be registered
Init ==
    /\ gbm = "null"
    /\ ndev = 0
    /\ ndestroy = 0
    /\ mutex = {}
    /\ endpoints = 0
    /\ handle = [h \in Handles |-> IF h \in Foreign THEN "valid" ELSE "none"]
    /\ registry = << >>
    /\ bos = {}
    /\ locked = {}
    /\ calls = 0
    /\ pc = [t \in Threads |-> "idle"]
    /\ op = [t \in Threads |-> "none"]
    /\ hnd = [t \in Threads |-> NULL]
    /\ sarg = [t \in Threads |-> ""]
    /\ err = [t \in Threads |-> 0]
    /\ out = [t \in Threads |-> Unwritten]
    /\ bstride = [t \in Threads |-> NULL]
    /\ called = [t \in Threads |-> "none"]
    /\ script = [t \in Threads |-> << >>]
    /\ own = [t \in Threads |-> NULL]
    /\ hist = [t \in Threads |-> << >>]

Step(t) ==
    \/ gbm_init(t)
    \/ gbm_mod_perform(t)
    \/ gbm_mod_register_buffer(t)
    \/ gbm_mod_unregister_buffer(t)
    \/ gbm_mod_lock(t)
    \/ gbm_mod_unlock(t)
    \/ gbm_mod_free_gpu0(t)
    \/ gbm_mod_alloc_gpu0(t)
    \/ gbm_mod_open(t)
    \/ gbm_mod_close_gpu0(t)
    \/ Returned(t)

Next ==
    \E t \in Threads : Call(t) \/ Step(t)

Spec == Init /\ [][Next]_vars

\* --------------------------------------------------- scripted clients

\* a scripted client makes the next call of its script on its own handle
\* (alloc has no handle yet: it is what gives the client one)
ScriptCall(t) ==
    /\ pc[t] = "idle"
    /\ script[t] # << >>
    /\ Begin(t, Head(script[t]), IF Head(script[t]) = "alloc" THEN NULL
                                 ELSE own[t])
    /\ UNCHANGED <<shared, calls, client>>

\* the threads that have a handle of their own to work on
Clients == {t \in Threads : t \in Handles}

\* register; register; unregister; unregister; unregister
RefcountScript ==
    <<"register", "register", "unregister", "unregister", "unregister">>

\* every client holds a handle that came from another process and is not
\* registered here, and runs RefcountScript on it
InitRefcount ==
    /\ gbm = "null"
    /\ ndev = 0
    /\ ndestroy = 0
    /\ mutex = {}
    /\ endpoints = 0
    /\ handle = [h \in Handles |-> "valid"]
    /\ registry = << >>
    /\ bos = {}
    /\ locked = {}
    /\ calls = 0
    /\ pc = [t \in Threads |-> "idle"]
    /\ op = [t \in Threads |-> "none"]
    /\ hnd = [t \in Threads |-> NULL]
    /\ sarg = [t \in Threads |-> ""]
    /\ err = [t \in Threads |-> 0]
    /\ out = [t \in Threads |-> Unwritten]
    /\ bstride = [t \in Threads |-> NULL]
    /\ called = [t \in Threads |-> "none"]
    /\ script = [t \in Threads |->
                   IF t \in Clients THEN RefcountScript ELSE << >>]
    /\ own = [t \in Threads |-> IF t \in Clients THEN t ELSE NULL]
    /\ hist = [t \in Threads |-> << >>]

NextRefcount ==
    \E t \in Threads :
        \/ ScriptCall(t)
        \/ gbm_init(t)
        \/ gbm_mod_register_buffer(t)
        \/ gbm_mod_unregister_buffer(t)
        \/ Returned(t)

SpecRefcount == InitRefcount /\ [][NextRefcount]_vars

\* allocate; register; lock; unlock; unregister; free
LifecycleScript ==
    <<"alloc", "register", "lock", "unlock", "unregister", "free">>

\* open has succeeded once (the device exists, the clients share the
\* endpoint); every thread runs LifecycleScript on the buffer it allocates
InitLifecycle ==
    /\ gbm = "live"
    /\ ndev = 1
    /\ ndestroy = 0
    /\ mutex = {}
    /\ endpoints = 1
    /\ handle = [h \in Handles |-> "none"]
    /\ registry = << >>
    /\ bos = {}
    /\ locked = {}
    /\ calls = 0
    /\ pc = [t \in Threads |-> "idle"]
    /\ op = [t \in Threads |-> "none"]
    /\ hnd = [t \in Threads |-> NULL]
    /\ sarg = [t \in Threads |-> ""]
    /\ err = [t \in Threads |-> 0]
    /\ out = [t \in Threads |-> Unwritten]
    /\ bstride = [t \in Threads |-> NULL]
    /\ called = [t \in Threads |-> "none"]
    /\ script = [t \in Threads |-> LifecycleScript]
    /\ own = [t \in Threads |-> NULL]
    /\ hist = [t \in Threads |-> << >>]

LifecycleStep(t) ==
    \/ ScriptCall(t)
    \/ gbm_init(t)
    \/ gbm_mod_register_buffer(t)
    \/ gbm_mod_unregister_buffer(t)
    \/ gbm_mod_lock(t)
    \/ gbm_mod_unlock(t)
    \/ gbm_mod_free_gpu0(t)
    \/ gbm_mod_alloc_gpu0(t)

NextLifecycle ==
    \E t \in Threads : LifecycleStep(t)

\* every thread is scheduled again and again: a step it can take, and
\* keeps being able to take, it takes (pthread_mutex_lock returns once the
\* mutex stays free)
SpecLifecycle ==
    /\ InitLifecycle
    /\ [][NextLifecycle]_vars
    /\ \A t \in Threads : WF_vars(LifecycleStep(t))

\* what a client does with the buffer it allocates before it frees it:
\* nothing, a lock, or a second registration and a lock; after the free it
\* tries to unregister
FreeScripts ==
    {<<"alloc", "free", "unregister">>,
     <<"alloc", "lock", "free", "unregister">>,
     <<"alloc", "register", "lock", "free", "unregister">>}

\* open has succeeded once; every thread runs one of FreeScripts
InitFree ==
    /\ gbm = "live"
    /\ ndev = 1
    /\ ndestroy = 0
    /\ mutex = {}
    /\ endpoints = 1
    /\ handle = [h \in Handles |-> "none"]
    /\ registry = << >>
    /\ bos = {}
    /\ locked = {}
    /\ calls = 0
    /\ pc = [t \in Threads |-> "idle"]
    /\ op = [t \in Threads |-> "none"]
    /\ hnd = [t \in Threads |-> NULL]
    /\ sarg = [t \in Threads |-> ""]
    /\ err = [t \in Threads |-> 0]
    /\ out = [t \in Threads |-> Unwritten]
    /\ bstride = [t \in Threads |-> NULL]
    /\ called = [t \in Threads |-> "none"]
    /\ script \in [Threads -> FreeScripts]
    /\ own = [t \in Threads |-> NULL]
    /\ hist = [t \in Threads |-> << >>]

NextFree ==
    \E t \in Threads :
        \/ ScriptCall(t)
        \/ gbm_init(t)
        \/ gbm_mod_register_buffer(t)
        \/ gbm_mod_unregister_buffer(t)
        \/ gbm_mod_lock(t)
        \/ gbm_mod_free_gpu0(t)
        \/ gbm_mod_alloc_gpu0(t)

SpecFree == InitFree /\ [][NextFree]_vars

\* ============================================================== claims

\* threads inside a critical section of the module
InCritical(t) ==
    pc[t] \in {"init_create", "init_unlock", "body", "exit", "sigfpe"}

\* C1: whatever the interleaving of the threads that run gbm_init (from
\* open, registerBuffer or perform), at most one backend device is ever
\* created; gbm_dev_create is not called once dmod->gbm is non-null; and a
\* gbm_init that returns 0 leaves dmod->gbm non-null.
C1_DeviceCreatedOnce ==
    /\ [](/\ ndev <= 1
          /\ \A t \in Threads :
                (pc[t] = "init_unlock" /\ err[t] = 0) => gbm # "null")
    /\ [][\A t \in Threads :
            (pc[t] = "init_create" /\ pc'[t] # "init_create")
                => (gbm = "null" /\ called'[t] = "gbm_dev_create")]_vars
    /\ [][\A t \in Threads :
            (pc[t] = "init_unlock" /\ pc'[t] \in {"enter", "tail"})
                => gbm' # "null"]_vars

\* C1 witness: the device exists, created once, and a later gbm_init has
\* gone through without calling gbm_dev_create, with a second thread
\* waiting to run gbm_init
C1_Witness ==
    \E t, u \in Threads :
        /\ t # u
        /\ pc[t] = "init_unlock" /\ err[t] = 0
        /\ called[t] = "none"
        /\ gbm = "live" /\ ndev = 1
        /\ pc[u] = "init_lock"

\* C2: at most one thread holds the module mutex, a thread inside the body
\* of register, unregister, lock, unlock, alloc, free or gbm_init holds
\* it, and every step that changes the device handle, the registry, a
\* buffer object or a native handle is taken by a thread that holds it.
C2_MutualExclusion ==
    /\ [](/\ Cardinality(mutex) <= 1
          /\ Cardinality({t \in Threads : InCritical(t)}) <= 1
          /\ \A t \in Threads : InCritical(t) => t \in mutex)
    /\ [][(<<gbm, ndev, handle, registry, bos, locked>>' #
             <<gbm, ndev, handle, registry, bos, locked>>)
            => \E t \in Threads :
                  t \in mutex /\ t \in mutex' /\ pc'[t] # pc[t]]_vars

\* C2 witness: one thread is inside the body of an entry point, the mutex
\* held, having changed the registry, while another waits at its
\* pthread_mutex_lock
C2_Witness ==
    \E t, u \in Threads :
        /\ t # u
        /\ pc[t] = "exit" /\ mutex = {t}
        /\ op[t] = "register" /\ err[t] = 0
        /\ pc[u] \in {"init_lock", "enter"}

\* C3: for a handle h with no entry in the registry, register(h);
\* register(h); unregister(h), all successful, leave the entry of h present
\* with reference count 1 (2 after the two registers); a second
\* unregister(h) succeeds, removes the entry and destroys the buffer
\* object; a third unregister(h) fails with -EINVAL (UnknownHandleError).
C3_RefcountSequence ==
    \A t \in Clients :
        LET h == own[t]
            r == hist[t]
            n == Len(hist[t])
        IN  (pc[t] = "idle" /\ n >= 2 /\ r[1] = 0 /\ r[2] = 0) =>
                /\ n = 2 => (h \in DOMAIN registry /\ registry[h] = 2)
                /\ n >= 3 => r[3] = 0
                /\ n = 3 => (/\ h \in DOMAIN registry
                             /\ registry[h] = 1
                             /\ h \in bos)
                /\ n >= 4 => r[4] = 0
                /\ n >= 4 => (h \notin DOMAIN registry /\ h \notin bos)
                /\ n = 5 => r[5] = -EINVAL

\* C3 witness: a client has run the whole sequence: two registers and two
\* unregisters returned 0, the third unregister -EINVAL
C3_Witness ==
    \E t \in Clients :
        /\ pc[t] = "idle"
        /\ hist[t] = <<0, 0, 0, 0, -EINVAL>>
        /\ own[t] \notin DOMAIN registry

\* thread t takes the step that runs the body of entry point o
BodyStep(t, o) ==
    op[t] = o /\ pc[t] = "body" /\ pc'[t] # "body"

\* C4: every entry of the registry has reference count at least 1, a
\* buffer object exists exactly when its handle has an entry (with count
\* greater than 0), only existing buffer objects are locked, and the
\* unregister that drops the last reference removes the entry and the
\* buffer object in that same step.
C4_RegistryCounts ==
    /\ [](/\ \A h \in DOMAIN registry : registry[h] >= 1
          /\ \A h \in Handles :
                h \in bos <=> (h \in DOMAIN registry /\ registry[h] > 0)
          /\ DOMAIN registry \subseteq Handles
          /\ locked \subseteq bos)
    /\ [][\A t \in Threads :
            (/\ BodyStep(t, "unregister")
             /\ hnd[t] \in DOMAIN registry
             /\ registry[hnd[t]] = 1)
                => (hnd[t] \notin DOMAIN registry' /\ hnd[t] \notin bos')]_vars

\* C4 witness: an unregister has just dropped the last reference of a
\* buffer that was locked, and its entry is gone, while another buffer
\* stays registered
C4_Witness ==
    \E t \in Threads :
        /\ op[t] = "unregister" /\ pc[t] = "exit" /\ err[t] = 0
        /\ hnd[t] \notin DOMAIN registry
        /\ hnd[t] \notin bos
        /\ DOMAIN registry # {}

C6_UnlockNotLockedFails ==
    /\ [][\A t \in Threads :
            (/\ BodyStep(t, "unlock")
             /\ hnd[t] \in DOMAIN registry
             /\ hnd[t] \notin locked)
                => (/\ err'[t] # 0
                    /\ <<handle, registry, bos, locked>>' =
                       <<handle, registry, bos, locked>>)]_vars
    /\ [][\A t \in Threads :
            (BodyStep(t, "lock") /\ hnd[t] \in DOMAIN registry)
                => (err'[t] = 0 /\ hnd[t] \in locked')]_vars
    /\ [][\A t \in Threads :
            (BodyStep(t, "unlock") /\ hnd[t] \in locked)
                => (err'[t] = 0 /\ hnd[t] \notin locked')]_vars

\* C7: free(h) that returns 0 closes the handle of h for good (the Freed
\* state): a closed handle stays closed and its buffer object never exists
\* again, and every later register, unregister, lock, unlock or free on it
\* returns -EINVAL.
C7_FreedIsTerminal ==
    /\ [](\A h \in Handles :
            handle[h] = "closed" => (h \notin bos /\ h \notin DOMAIN registry))
    /\ [][\A h \in Handles :
            handle[h] = "closed" => handle'[h] = "closed"]_vars
    /\ [][\A t \in Threads :
            (BodyStep(t, "free") /\ err'[t] = 0)
                => (handle'[hnd[t]] = "closed" /\ hnd[t] \notin bos')]_vars
    /\ [][\A t \in Threads :
            (/\ \E o \in HandleOps : BodyStep(t, o)
             /\ hnd[t] \in Handles
             /\ handle[hnd[t]] = "closed")
                => err'[t] = -EINVAL]_vars

\* C7 witness: a buffer that was allocated here has been freed, and a
\* register of its handle has since failed
C7_Witness ==
    \E t \in Threads :
        /\ op[t] = "register" /\ pc[t] = "exit"
        /\ hnd[t] \notin Foreign
        /\ handle[hnd[t]] = "closed"
        /\ err[t] = -EINVAL

\* C8: lock, unlock and free on a handle that has no buffer object here
\* set err to -EINVAL without calling gralloc_gbm_bo_lock,
\* gralloc_gbm_bo_unlock or gbm_free, change neither the registry nor a
\* buffer nor a handle, and go to the unlock label: no thread has returned
\* with the mutex held.
C8_InvalidHandleRejected ==
    /\ [][\A t \in Threads :
            (/\ \E o \in {"lock", "unlock", "free"} : BodyStep(t, o)
             /\ gralloc_gbm_bo_from_handle(hnd[t]) = NULL)
                => (/\ err'[t] = -EINVAL
                    /\ called'[t] = "none"
                    /\ pc'[t] = "exit"
                    /\ t \in mutex'
                    /\ <<gbm, handle, registry, bos, locked>>' =
                       <<gbm, handle, registry, bos, locked>>)]_vars
    /\ [](\A t \in Threads : pc[t] \in {"idle", "ret"} => t \notin mutex)

\* C8 witness: a free of a handle whose buffer object is gone (it was
\* unregistered) is about to return -EINVAL, having called nothing
C8_Witness ==
    \E t \in Threads :
        /\ op[t] = "free" /\ pc[t] = "exit"
        /\ err[t] = -EINVAL
        /\ called[t] = "none"
        /\ handle[hnd[t]] = "valid"

\* C9: unregister of a handle that has no entry sets err to -EINVAL
\* (UnknownHandleError) and leaves the entries, their reference counts and
\* the buffer objects as they were.
C9_UnknownUnregister ==
    [][\A t \in Threads :
         (BodyStep(t, "unregister") /\ hnd[t] \notin DOMAIN registry)
             => (/\ err'[t] = -EINVAL
                 /\ <<handle, registry, bos, locked>>' =
                    <<handle, registry, bos, locked>>)]_vars

\* C9 witness: an unregister of an unregistered handle has failed while
\* another handle is registered more than once
C9_Witness ==
    \E t \in Threads :
        /\ op[t] = "unregister" /\ pc[t] = "exit"
        /\ err[t] = -EINVAL
        /\ hnd[t] \notin DOMAIN registry
        /\ \E h \in DOMAIN registry : registry[h] >= 2

\* every thread has run its script to the end and is outside the module
AllDone ==
    \A t \in Threads : pc[t] = "idle" /\ script[t] = << >>

\* C10: threads that each run alloc, register, lock, unlock, unregister,
\* free on the buffer they allocated all get to the end of the six calls
\* (none waits for the mutex for ever); a thread whose alloc succeeded sees
\* all six calls return 0; and when all are done the registry is empty, no
\* buffer object is left and the mutex is free.
C10_LifecycleCompletes ==
    /\ \A t \in Threads :
          <>(pc[t] = "idle" /\ script[t] = << >> /\ Len(hist[t]) = 6)
    /\ [](\A t \in Threads :
            (script[t] = << >> /\ own[t] # NULL)
                => hist[t] = <<0, 0, 0, 0, 0, 0>>)
    /\ [](AllDone => (registry = << >> /\ bos = {} /\ locked = {}
                        /\ mutex = {}))

\* C10 witness: all threads are done, each having allocated a buffer of
\* its own and seen its six calls succeed
C10_Witness ==
    /\ AllDone
    /\ \A t \in Threads : own[t] # NULL /\ hist[t] = <<0, 0, 0, 0, 0, 0>>
    /\ \A t, u \in Threads : t # u => own[t] # own[u]

\* C11: once gbm_init has returned 0, perform returns 0 for
\* GRALLOC_MODULE_PERFORM_GET_DRM_FD, with the descriptor of the device in
\* *fd (the device being live), returns 0 for
\* GRALLOC_MODULE_PERFORM_GET_USAGE and writes nothing, and returns -EINVAL
\* for any other op code; no step of perform changes the registry, a
\* buffer object or a native handle.
C11_PerformOps ==
    /\ [][\A t \in Threads :
            (op[t] = "perform" /\ pc[t] = "tail" /\ pc'[t] # "tail")
                => /\ pc'[t] = "ret"
                   /\ sarg'[t] \in PerformOps
                   /\ sarg'[t] = GRALLOC_MODULE_PERFORM_GET_DRM_FD
                        => /\ err'[t] = 0
                           /\ out'[t] # Unwritten
                           /\ DeviceLive => out'[t] = DevFd
                   /\ sarg'[t] = GRALLOC_MODULE_PERFORM_GET_USAGE
                        => (err'[t] = 0 /\ out'[t] = Unwritten)
                   /\ sarg'[t] \notin {GRALLOC_MODULE_PERFORM_GET_DRM_FD,
                                       GRALLOC_MODULE_PERFORM_GET_USAGE}
                        => (err'[t] = -EINVAL /\ out'[t] = Unwritten)]_vars
    /\ [][\A t \in Threads :
            (op[t] = "perform" /\ pc'[t] # pc[t])
                => <<handle, registry, bos, locked>>' =
                   <<handle, registry, bos, locked>>]_vars

\* C11 witness: with a buffer registered and the device live, one perform
\* has returned the descriptor and another has returned 0 for the usage
\* query with nothing written
C11_Witness ==
    \E t, u \in Threads :
        /\ op[t] = "perform" /\ pc[t] = "ret"
        /\ sarg[t] = GRALLOC_MODULE_PERFORM_GET_DRM_FD
        /\ err[t] = 0 /\ out[t] = DevFd
        /\ op[u] = "perform" /\ pc[u] = "ret"
        /\ sarg[u] = GRALLOC_MODULE_PERFORM_GET_USAGE
        /\ err[u] = 0 /\ out[u] = Unwritten
        /\ DeviceLive
        /\ registry # << >>

\* C12: open with a name that is not GRALLOC_HARDWARE_GPU0 returns -EINVAL
\* without running gbm_init (no device is created, nothing is called) and
\* without handing out an endpoint; an endpoint is handed out only by an
\* open of GRALLOC_HARDWARE_GPU0 whose gbm_init returned 0, and once such
\* an open has returned 0 dmod->gbm is not NULL.
C12_OpenByName ==
    /\ [][\A t \in Threads :
            (/\ op[t] = "open" /\ pc[t] = "open" /\ pc'[t] # "open"
             /\ sarg'[t] # GRALLOC_HARDWARE_GPU0)
                => /\ pc'[t] = "ret"
                   /\ err'[t] = -EINVAL
                   /\ called'[t] = "none"
                   /\ <<gbm, ndev, endpoints>>' = <<gbm, ndev, endpoints>>]_vars
    /\ [](\A t \in Threads :
            (op[t] = "open" /\ sarg[t] \notin {"", GRALLOC_HARDWARE_GPU0})
                => (pc[t] = "ret" /\ err[t] = -EINVAL /\ called[t] = "none"))
    /\ [][endpoints' > endpoints
            => \E t \in Threads :
                  /\ op[t] = "open" /\ pc[t] = "tail" /\ pc'[t] = "ret"
                  /\ sarg[t] = GRALLOC_HARDWARE_GPU0
                  /\ err[t] = 0 /\ err'[t] = 0
                  /\ gbm # "null" /\ gbm' # "null"
                  /\ endpoints' = endpoints + 1]_vars
    /\ [](\A t \in Threads :
            (op[t] = "open" /\ pc[t] = "ret" /\ err[t] = 0)
                => (gbm # "null" /\ sarg[t] = GRALLOC_HARDWARE_GPU0))

\* C12 witness: an open of an unknown name has failed and an open of
\* GRALLOC_HARDWARE_GPU0 has returned 0; the one endpoint is that of the
\* second, and the device exists
C12_Witness ==
    \E t, u \in Threads :
        /\ op[t] = "open" /\ pc[t] = "ret"
        /\ sarg[t] \in DeviceNames \ {GRALLOC_HARDWARE_GPU0}
        /\ err[t] = -EINVAL
        /\ op[u] = "open" /\ pc[u] = "ret"
        /\ sarg[u] = GRALLOC_HARDWARE_GPU0
        /\ err[u] = 0
        /\ gbm = "live" /\ ndev = 1 /\ endpoints = 1

\* C13 (as the specification states it): over any sequence of open and
\* close of the allocation endpoint, gbm_dev_destroy is called at most once
\* for each device gbm_dev_create has created, never on a device that has
\* been destroyed already.
C13_DestroyedOncePerCreate ==
    ndestroy <= ndev

\* the entry points that start with gbm_init
InitOps == {"open", "register", "perform"}

\* C14: when gbm_dev_create fails, gbm_init sets err to a negative code,
\* leaves dmod->gbm NULL and releases the mutex, and its caller (open,
\* registerBuffer, perform) returns that code having changed neither the
\* registry nor a buffer nor the endpoints; the failure does not last: a
\* gbm_init that finds dmod->gbm NULL calls gbm_dev_create again.
C14_InitFailure ==
    /\ [][\A t \in Threads :
            (pc[t] = "init_create" /\ pc'[t] # "init_create" /\ gbm' = "null")
                => (err'[t] < 0 /\ pc'[t] = "init_unlock" /\ ndev' = ndev)]_vars
    /\ [](\A t \in Threads :
            (pc[t] = "init_unlock" /\ gbm = "null") => err[t] < 0)
    /\ [][\A t \in Threads :
            (pc[t] = "init_unlock" /\ pc'[t] # "init_unlock" /\ err[t] < 0)
                => /\ pc'[t] = "ret"
                   /\ err'[t] = err[t]
                   /\ t \notin mutex' /\ mutex' = {}
                   /\ gbm' = "null"]_vars
    /\ [][\A t \in Threads :
            (op[t] \in InitOps /\ pc'[t] = "ret" /\ pc[t] # "ret"
               /\ called[t] = "gbm_dev_create" /\ gbm = "null")
                => /\ err'[t] < 0
                   /\ <<endpoints, handle, registry, bos, locked>>' =
                      <<endpoints, handle, registry, bos, locked>>]_vars
    /\ [][\A t \in Threads :
            (pc[t] = "init_lock" /\ pc'[t] # "init_lock" /\ gbm = "null")
                => pc'[t] = "init_create"]_vars

\* C14 witness: a registerBuffer has returned the error of a gbm_init
\* whose gbm_dev_create failed, and a gbm_init after that one has created
\* the device
C14_Witness ==
    \E t, u \in Threads :
        /\ t # u
        /\ op[t] = "register" /\ pc[t] = "ret"
        /\ called[t] = "gbm_dev_create" /\ err[t] = -EINVAL
        /\ op[u] \in InitOps /\ pc[u] = "init_unlock"
        /\ called[u] = "gbm_dev_create" /\ err[u] = 0
        /\ gbm = "live" /\ ndev = 1

C16_StrideInPixels ==
    LET bpp == "RGBA_8888" :> 4 @@ "RGBX_8888" :> 4 @@ "BGRA_8888" :> 4
               @@ "RGB_888" :> 3
               @@ "RGB_565" :> 2 @@ "YCbCr_422_I" :> 2
               @@ "YV12" :> 1 @@ "YCbCr_422_SP" :> 1 @@ "YCrCb_420_SP" :> 1
    IN  /\ \A f \in DOMAIN bpp : gralloc_gbm_get_bpp(f) = bpp[f]
        /\ \A t \in Threads :
             (op[t] = "alloc" /\ pc[t] = "exit" /\ err[t] = 0)
                => /\ sarg[t] \in DOMAIN bpp
                   /\ bstride[t] \in ByteStrides
                   /\ out[t] = bstride[t] \div bpp[sarg[t]]
                   /\ (sarg[t] = "RGBA_8888" /\ bstride[t] = 256)
                         => out[t] = 64
                   /\ (sarg[t] = "RGB_565" /\ bstride[t] = 128)
                         => out[t] = 64

\* C16 witness: an alloc of RGB_888, whose 128 bytes do not divide by 3,
\* has 42 in *stride, a second buffer being there already
C16_Witness ==
    \E t \in Threads :
        /\ op[t] = "alloc" /\ pc[t] = "exit" /\ err[t] = 0
        /\ sarg[t] = "RGB_888" /\ bstride[t] = 128 /\ out[t] = 42
        /\ Cardinality(bos) = 2

\* C17: free of a handle that has a buffer object returns 0 and destroys
\* the object whatever its reference count and whether or not it is
\* locked: the entry, the object and its lock are gone and the handle is
\* closed after the one step, the other entries are as they were, and
\* what the client does next with the handle (an unregister) finds no
\* entry.
C17_FreeUnconditional ==
    /\ [][\A t \in Threads :
            (BodyStep(t, "free") /\ hnd[t] \in DOMAIN registry)
                => /\ err'[t] = 0
                   /\ called'[t] = "gbm_free"
                   /\ hnd[t] \notin DOMAIN registry'
                   /\ bos' = bos \ {hnd[t]}
                   /\ locked' = locked \ {hnd[t]}
                   /\ handle'[hnd[t]] = "closed"
                   /\ \A h \in DOMAIN registry \ {hnd[t]} :
                         h \in DOMAIN registry' /\ registry'[h] = registry[h]
                   /\ gralloc_gbm_bo_from_handle(hnd[t])' = NULL]_vars
    /\ [](\A t \in Threads :
            (script[t] = << >> /\ own[t] # NULL)
                => /\ own[t] \notin DOMAIN registry
                   /\ hist[t] \in {<<0, 0, -EINVAL>>, <<0, 0, 0, -EINVAL>>,
                                   <<0, 0, 0, 0, -EINVAL>>})

\* C17 witness: one client has freed a buffer registered twice and locked,
\* another a buffer registered once and not locked; both frees returned 0
\* and both unregisters after them failed
C17_Witness ==
    \E t, u \in Threads :
        /\ script[t] = << >> /\ own[t] # NULL
        /\ hist[t] = <<0, 0, 0, 0, -EINVAL>>
        /\ script[u] = << >> /\ own[u] # NULL
        /\ hist[u] = <<0, 0, -EINVAL>>
        /\ registry = << >> /\ bos = {}

\* functions of the backend and of the registry that take dmod->gbm
DeviceUsers ==
    {"gralloc_gbm_bo_create", "gralloc_gbm_handle_register",
     "gbm_device_get_fd"}

\* C18 (as the claim states it): in every interleaving of open, close,
\* alloc, registerBuffer and perform, a step that passes dmod->gbm to
\* gralloc_gbm_bo_create, gralloc_gbm_handle_register or gbm_device_get_fd
\* finds the device live: created and not destroyed.
C18_DeviceLiveWhenUsed ==
    [][\A t \in Threads :
         (pc'[t] # pc[t] /\ called'[t] # called[t]
            /\ called'[t] \in DeviceUsers)
             => DeviceLive]_vars

\* C19: registerBuffer gives the mutex up between its gbm_init and its
\* gralloc_gbm_handle_register (it waits for it again at line 142), and the
\* import still gets a dmod->gbm that is not NULL: no step of any entry
\* point, close included, sets dmod->gbm back to NULL.
C19_RegisterTwoSections ==
    /\ [][\A t \in Threads :
            (op[t] = "register" /\ pc[t] = "init_unlock"
               /\ pc'[t] # "init_unlock" /\ err[t] = 0)
                => (pc'[t] = "enter" /\ t \in mutex /\ mutex' = {})]_vars
    /\ [](\A t \in Threads :
            (op[t] = "register" /\ pc[t] \in {"enter", "body"})
                => (gbm # "null" /\ (pc[t] = "enter" => t \notin mutex)))
    /\ [][\A t \in Threads :
            BodyStep(t, "register")
                => (gbm # "null"
                      /\ called'[t] = "gralloc_gbm_handle_register")]_vars
    /\ [][gbm # "null" => gbm' # "null"]_vars

\* C19 witness: a registerBuffer has run gralloc_gbm_handle_register in
\* its second critical section while a close, which takes no mutex, has
\* destroyed the device and not yet returned; dmod->gbm is still not NULL
C19_Witness ==
    \E t, u \in Threads :
        /\ op[t] = "register" /\ pc[t] = "exit"
        /\ called[t] = "gralloc_gbm_handle_register"
        /\ op[u] = "close" /\ pc[u] = "ret"
        /\ mutex = {t}
        /\ ndestroy = 1
        /\ gbm # "null"

\* C20: perform runs gbm_init before it reads the op code: when gbm_init
\* fails perform returns the error of gbm_init, the op code not looked at
\* (so whatever it is) and nothing written to the caller's output; the op
\* code is read only after a gbm_init that returned 0.
C20_PerformInitFirst ==
    /\ [][\A t \in Threads :
            (op[t] = "perform" /\ pc[t] = "init_unlock"
               /\ pc'[t] # "init_unlock" /\ err[t] # 0)
                => /\ pc'[t] = "ret"
                   /\ err'[t] = err[t]
                   /\ sarg'[t] = ""
                   /\ out'[t] = Unwritten]_vars
    /\ [](\A t \in Threads :
            (op[t] = "perform" /\ pc[t] = "ret" /\ sarg[t] = "")
                => /\ err[t] = -EINVAL
                   /\ out[t] = Unwritten
                   /\ called[t] = "gbm_dev_create")
    /\ [](\A t \in Threads :
            (op[t] = "perform" /\ (pc[t] = "tail" \/ sarg[t] # ""))
                => gbm # "null")
    /\ [][\A t \in Threads :
            (op[t] = "perform" /\ sarg[t] = "" /\ sarg'[t] # "")
                => (pc[t] = "tail" /\ err[t] = 0)]_vars

\* C20 witness: a perform has come back from a failed gbm_init with
\* -EINVAL, no op code read, nothing written and no device
C20_Witness ==
    \E t \in Threads :
        /\ op[t] = "perform" /\ pc[t] = "ret"
        /\ called[t] = "gbm_dev_create"
        /\ err[t] = -EINVAL
        /\ sarg[t] = "" /\ out[t] = Unwritten
        /\ gbm = "null"

====
